---- MODULE Spec2Model ----
(***************************************************************************)
(* Model of the history-tools key/value layer: the sort-order preserving   *)
(* key codec and key-space layout of src/src/state_history_kv.hpp and the  *)
(* query executor of src/src/wasm_ql_rocksdb_plugin.cpp.                   *)
(*                                                                         *)
(* Byte vectors (std::vector<char>) are sequences over 0..255.  A native   *)
(* scalar is held as its object representation, the little-endian byte     *)
(* sequence abieos::native_to_bin copies out of it; TLC's integers stop at *)
(* 2^31-1, so 32-bit and wider values cannot be held as one integer.       *)
(***************************************************************************)
EXTENDS Integers, Sequences, FiniteSets, TLC

VARIABLES
    typ,      \* codec: the type T an operation is instantiated with
    a,        \* codec: first native value
    b,        \* codec: second native value
    pre,      \* codec: content of dest before the operation
    dest,     \* codec: the vector the operation appends to (for value a)
    dest2,    \* codec: a second vector (for value b)
    bin,      \* codec: abieos::input_buffer, [data, pos]
    out,      \* codec: value returned by bin_to_native_key
    pres,     \* codec: the two present flags of the state suffix
    err,      \* "none" or the what() of the exception thrown
    op,       \* the operation applied last
    db,       \* store: the key-value store, a function from keys to values
    writes,   \* store: number of rows the writer has put
    before,   \* store: after a range erase, the store as it was before it
    erase_n,  \* store: after a range erase, its block number n
    call,     \* query: the arguments of the last query_database call
    res,      \* query: what the last query_database call computed
    tab,      \* catalog: a table after config::prepare
    field_no  \* catalog: the field append_fields was asked for

vars ==
    <<typ, a, b, pre, dest, dest2, bin, out, pres, err, op, db, writes, before, erase_n, call, res,
      tab, field_no>>

catalogVars == <<tab, field_no>>

codecVars == <<typ, a, b, pre, dest, dest2, bin, out, pres>>

storeVars == <<db, writes, before, erase_n>>

queryVars == <<call, res>>

----------------------------------------------------------------------------
(* Bytes and orders *)

Byte == 0..255

Min(x, y) == IF x < y THEN x ELSE y

Reverse(s) == [i \in 1..Len(s) |-> s[Len(s) + 1 - i]]

Fill(n, v) == [i \in 1..n |-> v]

\* The bytes of s after its first n.
Drop(s, n) == SubSeq(s, n + 1, Len(s))

\* Unsigned byte-wise lexicographic order (memcmp, then the shorter first).
LexLess(x, y) ==
    \/ \E i \in 1..Min(Len(x), Len(y)) :
          /\ x[i] < y[i]
          /\ \A j \in 1..(i - 1) : x[j] = y[j]
    \/ /\ Len(x) < Len(y)
       /\ \A j \in 1..Len(x) : x[j] = y[j]

LexLeq(x, y) == x = y \/ LexLess(x, y)

\* Numeric order of two unsigned values of one width, given as little-endian
\* bytes: the most significant differing digit decides.
NumLess(x, y) ==
    \E i \in 1..Len(x) :
        /\ x[i] < y[i]
        /\ \A j \in (i + 1)..Len(x) : x[j] = y[j]

\* Little-endian bytes of an integer (below 2^31) at width w.
RECURSIVE ToLE(_, _)
ToLE(v, w) == IF w = 0 THEN <<>> ELSE <<v % 256>> \o ToLE(v \div 256, w - 1)

\* A little-endian value whose integer TLC can hold.
FitsInt(s) == \A i \in 1..Len(s) : (i > 4 => s[i] = 0) /\ (i = 4 => s[i] < 128)

RECURSIVE Val(_)
Val(s) == IF s = <<>> THEN 0 ELSE s[1] + 256 * Val(Tail(s))

----------------------------------------------------------------------------
(* The types of the registry and their C++ traits *)

UnsignedTypes == {"bool", "uint8", "uint16", "uint32", "uint64"}

SignedTypes == {"int8", "int16", "int32", "int64"}

Timestamps == {"time_point", "time_point_sec", "block_timestamp_type"}

\* The counted types: a varuint32 length, then that many bytes.
CountedTypes == {"string", "bytes"}

abi_type_to_kv_type ==
    UnsignedTypes \cup SignedTypes \cup Timestamps \cup CountedTypes
        \cup {"varuint32", "uint128", "name", "checksum256"}
        \cup {"int128", "float64", "float128", "public_key", "transaction_status"}

\* sizeof(T)
SizeOf(T) ==
    CASE T \in {"bool", "uint8", "int8", "transaction_status"} -> 1
      [] T \in {"uint16", "int16"} -> 2
      [] T \in {"uint32", "int32", "varuint32", "time_point_sec", "block_timestamp_type"} -> 4
      [] T \in {"uint64", "int64", "name", "time_point", "float64"} -> 8
      [] T \in {"uint128", "int128", "float128"} -> 16
      [] T = "checksum256" -> 32
      [] T = "public_key" -> 34

\* The condition below with the timestamp structs let through.
KeySupported_timestamps(T) ==
    T \in UnsignedTypes \cup {"name", "uint128", "checksum256"} \cup Timestamps

\* The condition below with the signed integers let through.
KeySupported_signed(T) ==
    T \in UnsignedTypes \cup {"name", "uint128", "checksum256"} \cup SignedTypes

\* The if-constexpr condition of fixup_key, repeated in bin_to_native_key,
\* lower_bound_key and upper_bound_key.
KeySupported(T) == T \in UnsignedTypes \cup {"name", "uint128", "checksum256"}

----------------------------------------------------------------------------
(* Codec.  An operation works on st = [dest, bin, err]: the vector it      *)
(* appends to, the input buffer it reads, and the exception in flight.     *)

NoBin == [data |-> <<>>, pos |-> 0]

St(d, i) == [dest |-> d, bin |-> i, err |-> "none"]

Throw(st, e) == [st EXCEPT !.err = e]

Remaining(i) == Len(i.data) - i.pos

\* abieos::native_to_bin of a scalar: the object's bytes, appended.
native_to_bin(st, obj) == [st EXCEPT !.dest = @ \o obj]

\* reverse_bin without the std::reverse
reverse_bin_none(st, r) == r

\* reverse_bin, given the state r that f() left: the bytes f appended are
\* reversed; an exception out of f() skips the reversal.
reverse_bin(st, r) ==
    IF r.err # "none" THEN r
    ELSE [r EXCEPT !.dest = SubSeq(@, 1, Len(st.dest)) \o Reverse(Drop(@, Len(st.dest)))]

\* fixup_key<T>, given the state r that f() leaves when it is run on st: an
\* unsupported T throws and f() is not run.
fixup_key(T, st, r) ==
    IF KeySupported(T) THEN reverse_bin(st, r)
    ELSE Throw(st, "unsupported key type")

native_to_bin_key(T, st, obj) == fixup_key(T, st, native_to_bin(st, obj))

\* bin_to_native_key without the std::reverse
bin_to_native_key_noreverse(T, i) ==
    IF KeySupported(T)
    THEN IF i.pos + SizeOf(T) > Len(i.data)
         THEN [bin |-> i, err |-> "key deserialization error", val |-> <<>>]
         ELSE [bin |-> [i EXCEPT !.pos = @ + SizeOf(T)],
               err |-> "none",
               val |-> SubSeq(i.data, i.pos + 1, i.pos + SizeOf(T))]
    ELSE [bin |-> i, err |-> "unsupported key type", val |-> <<>>]

\* bin_to_native_key<T>: [bin, err, val], val the native value read.
bin_to_native_key(T, i) ==
    IF KeySupported(T)
    THEN IF i.pos + SizeOf(T) > Len(i.data)
         THEN [bin |-> i, err |-> "key deserialization error", val |-> <<>>]
         ELSE [bin |-> [i EXCEPT !.pos = @ + SizeOf(T)],
               err |-> "none",
               val |-> Reverse(SubSeq(i.data, i.pos + 1, i.pos + SizeOf(T)))]
    ELSE [bin |-> i, err |-> "unsupported key type", val |-> <<>>]

\* abieos::read_raw of n bytes followed by native_to_bin of what was read.
bin_to_bin_raw(st, n) ==
    IF Remaining(st.bin) < n THEN Throw(st, "read past end")
    ELSE [st EXCEPT !.dest = @ \o SubSeq(st.bin.data, st.bin.pos + 1, st.bin.pos + n),
                    !.bin.pos = @ + n]

\* abieos::read_varuint32: [val, pos, err].  The accumulator is TLC's
\* integer, so encodings of values from 2^31 on are outside this operator.
RECURSIVE read_varuint32(_, _, _, _)
read_varuint32(data, pos, shift, acc) ==
    IF shift >= 35 THEN [val |-> 0, pos |-> pos, err |-> "invalid varuint32 encoding"]
    ELSE IF pos >= Len(data) THEN [val |-> 0, pos |-> pos, err |-> "read past end"]
    ELSE LET byte == data[pos + 1]
             acc2 == acc + (byte % 128) * (2 ^ shift)
         IN  IF byte >= 128 THEN read_varuint32(data, pos + 1, shift + 7, acc2)
             ELSE [val |-> acc2, pos |-> pos + 1, err |-> "none"]

\* abieos::push_varuint32
RECURSIVE push_varuint32(_)
push_varuint32(v) ==
    IF v < 128 THEN <<v>> ELSE <<128 + (v % 128)>> \o push_varuint32(v \div 128)

\* bin_to_bin<T>: re-serialise one value of T from bin onto dest.
bin_to_bin(T, st) ==
    CASE T = "varuint32" ->
           LET r == read_varuint32(st.bin.data, st.bin.pos, 0, 0)
           IN  IF r.err # "none" THEN Throw([st EXCEPT !.bin.pos = r.pos], r.err)
               ELSE [st EXCEPT !.dest = @ \o push_varuint32(r.val), !.bin.pos = r.pos]
      [] T \in {"uint128", "int128"} ->
           LET r == bin_to_bin_raw(st, 8)
           IN  IF r.err # "none" THEN r ELSE bin_to_bin_raw(r, 8)
      [] T \in CountedTypes ->
           LET r == read_varuint32(st.bin.data, st.bin.pos, 0, 0)
           IN  IF r.err # "none" THEN Throw([st EXCEPT !.bin.pos = r.pos], r.err)
               ELSE IF Len(st.bin.data) - r.pos < r.val
               THEN Throw([st EXCEPT !.bin.pos = r.pos], "read past end")
               ELSE [st EXCEPT !.dest = @ \o push_varuint32(r.val)
                                           \o SubSeq(st.bin.data, r.pos + 1, r.pos + r.val),
                               !.bin.pos = r.pos + r.val]
      [] OTHER -> bin_to_bin_raw(st, SizeOf(T))

\* The varuint32 branch of bin_to_bin_key: the value is read as a varuint32
\* and written as a uint32.
varuint32_to_bin_u32(st) ==
    LET r == read_varuint32(st.bin.data, st.bin.pos, 0, 0)
    IN  IF r.err # "none" THEN Throw([st EXCEPT !.bin.pos = r.pos], r.err)
        ELSE [st EXCEPT !.dest = @ \o ToLE(r.val, 4), !.bin.pos = r.pos]

bin_to_bin_key(T, st) ==
    IF T = "varuint32" THEN reverse_bin(st, varuint32_to_bin_u32(st))
    ELSE fixup_key(T, st, bin_to_bin(T, st))

query_to_bin_key(T, st) ==
    IF T = "varuint32" THEN fixup_key("uint32", st, bin_to_bin("uint32", st))
    ELSE fixup_key(T, st, bin_to_bin(T, st))

lower_bound_key(T, st) ==
    IF KeySupported(T) THEN [st EXCEPT !.dest = @ \o Fill(SizeOf(T), 0)]
    ELSE Throw(st, "unsupported key type")

upper_bound_key(T, st) ==
    IF KeySupported(T) THEN [st EXCEPT !.dest = @ \o Fill(SizeOf(T), 255)]
    ELSE Throw(st, "unsupported key type")

get_fixed_size(T) ==
    IF \/ T \in UnsignedTypes \cup SignedTypes
       \/ T \in {"name", "uint128", "checksum256", "time_point", "block_timestamp_type"}
    THEN SizeOf(T)
    ELSE 0

\* inc_key without the carry: only the last byte is incremented.
inc_key_last(key) ==
    IF key = <<>> THEN key ELSE [key EXCEPT ![Len(key)] = (@ + 1) % 256]

\* inc_key: ++ each byte from the back until one does not wrap to 0.
RECURSIVE inc_key(_)
inc_key(key) ==
    IF key = <<>> THEN key
    ELSE LET n == Len(key)
             v == (key[n] + 1) % 256
         IN  IF v # 0 THEN [key EXCEPT ![n] = v]
             ELSE inc_key(SubSeq(key, 1, n - 1)) \o <<0>>

\* ~block on a uint32: every bit, so every byte, complemented.
BitNot(v) == [i \in 1..Len(v) |-> 255 - v[i]]

\* (uint8_t)b of a bool
Bool(x) == IF x THEN <<1>> ELSE <<0>>

\* The suffix with the block number not complemented.
append_table_index_state_suffix_plain(st, block) == native_to_bin_key("uint32", st, block)

\* append_table_index_state_suffix(dest, block)
append_table_index_state_suffix(st, block) == native_to_bin_key("uint32", st, BitNot(block))

\* append_table_index_state_suffix(dest, block, present)
append_table_index_state_suffix_present(st, block, present) ==
    native_to_bin_key("bool", append_table_index_state_suffix(st, block), Bool(~present))

----------------------------------------------------------------------------
(* Inputs of the codec specification *)

Pat(w, i, v) == [j \in 1..w |-> IF j = i THEN v ELSE 0]

\* Values of width w: 0, 1, 255, 256, 65536, the top byte alone, all ones,
\* and one value with both ends set.
Samples(w) ==
    {Pat(w, i, v) : i \in {1, 2, 3, w} \cap (1..w), v \in {0, 1, 255}}
        \cup {Fill(w, 255)}
        \cup {[j \in 1..w |-> IF j = 1 THEN 2 ELSE IF j = w THEN 1 ELSE 0]}

ValuesOf(T) ==
    CASE T = "bool" -> {<<0>>, <<1>>}
      [] T = "varuint32" -> {ToLE(v, 4) : v \in {0, 1, 127, 128, 300, 16384}}
      [] T \in CountedTypes -> {<<>>, <<97>>, <<97, 98>>}
      [] T = "public_key" -> {Fill(34, 0), <<1>> \o Fill(33, 7)}
      [] OTHER -> Samples(SizeOf(T))

\* The canonical (abieos) serialisation of a native value.
Canonical(T, v) ==
    IF T = "varuint32" THEN push_varuint32(Val(v))
    ELSE IF T \in CountedTypes THEN push_varuint32(Len(v)) \o v
    ELSE v

\* A query argument: serialised as T, a varuint32 as a uint32.
QueryArg(T, v) == IF T = "varuint32" THEN v ELSE Canonical(T, v)

Prefixes == {<<>>, <<112, 7>>}

\* What an operation appended to dest.
Appended(d) == Drop(d, Len(pre))

InitCodec ==
    /\ typ \in abi_type_to_kv_type
    /\ a \in ValuesOf(typ)
    /\ b \in ValuesOf(typ)
    /\ pre \in Prefixes
    /\ dest = pre
    /\ dest2 = pre
    /\ bin = NoBin
    /\ out = [val |-> <<>>, from |-> 0]
    /\ pres = <<TRUE, TRUE>>
    /\ err = "none"
    /\ op = "init"
    /\ db = <<>>
    /\ writes = 0
    /\ before = <<>>
    /\ erase_n = <<>>
    /\ call = <<>>
    /\ res = <<>>
    /\ tab = <<>>
    /\ field_no = 0

\* native_to_bin_key<T>(dest, a) and native_to_bin_key<T>(dest2, b)
NativeToBinKey ==
    /\ op = "init"
    /\ LET r1 == native_to_bin_key(typ, St(pre, NoBin), a)
           r2 == native_to_bin_key(typ, St(pre, NoBin), b)
       IN  /\ dest' = r1.dest
           /\ dest2' = r2.dest
           /\ err' = r1.err
    /\ op' = "native_to_bin_key"
    /\ UNCHANGED <<typ, a, b, pre, bin, out, pres>>
    /\ UNCHANGED <<storeVars, queryVars, catalogVars>>

\* An input buffer over the two keys just written, cut short by cut bytes.
LoadKeys ==
    /\ op = "native_to_bin_key"
    /\ err = "none"
    /\ \E cut \in 0..(2 * SizeOf(typ)) :
          LET both == Appended(dest) \o Appended(dest2)
          IN  bin' = [data |-> SubSeq(both, 1, Len(both) - cut), pos |-> 0]
    /\ op' = "load"
    /\ UNCHANGED <<typ, a, b, pre, dest, dest2, out, pres, err>>
    /\ UNCHANGED <<storeVars, queryVars, catalogVars>>

\* bin_to_native_key<T>(bin)
BinToNativeKey ==
    /\ op \in {"load", "bin_to_native_key"}
    /\ err = "none"
    /\ bin.pos < 2 * SizeOf(typ)
    /\ LET r == bin_to_native_key(typ, bin)
       IN  /\ bin' = r.bin
           /\ out' = [val |-> r.val, from |-> bin.pos]
           /\ err' = r.err
    /\ op' = "bin_to_native_key"
    /\ UNCHANGED <<typ, a, b, pre, dest, dest2, pres>>
    /\ UNCHANGED <<storeVars, queryVars, catalogVars>>

\* type.bin_to_bin_key(dest, bin), bin holding a then b in canonical form
BinToBinKey ==
    /\ op = "init"
    /\ LET r == bin_to_bin_key(typ, St(pre, [data |-> Canonical(typ, a) \o Canonical(typ, b), pos |-> 0]))
       IN  /\ dest' = r.dest
           /\ bin' = r.bin
           /\ err' = r.err
    /\ op' = "bin_to_bin_key"
    /\ UNCHANGED <<typ, a, b, pre, dest2, out, pres>>
    /\ UNCHANGED <<storeVars, queryVars, catalogVars>>

\* type.query_to_bin_key(dest, bin), bin holding a then b as query arguments
QueryToBinKey ==
    /\ op = "init"
    /\ LET r == query_to_bin_key(typ, St(pre, [data |-> QueryArg(typ, a) \o QueryArg(typ, b), pos |-> 0]))
       IN  /\ dest' = r.dest
           /\ bin' = r.bin
           /\ err' = r.err
    /\ op' = "query_to_bin_key"
    /\ UNCHANGED <<typ, a, b, pre, dest2, out, pres>>
    /\ UNCHANGED <<storeVars, queryVars, catalogVars>>

\* type.lower_bound_key(dest)
LowerBoundKey ==
    /\ op = "init"
    /\ LET r == lower_bound_key(typ, St(pre, NoBin))
       IN  dest' = r.dest /\ err' = r.err
    /\ op' = "lower_bound_key"
    /\ UNCHANGED <<typ, a, b, pre, dest2, bin, out, pres>>
    /\ UNCHANGED <<storeVars, queryVars, catalogVars>>

\* type.upper_bound_key(dest)
UpperBoundKey ==
    /\ op = "init"
    /\ LET r == upper_bound_key(typ, St(pre, NoBin))
       IN  dest' = r.dest /\ err' = r.err
    /\ op' = "upper_bound_key"
    /\ UNCHANGED <<typ, a, b, pre, dest2, bin, out, pres>>
    /\ UNCHANGED <<storeVars, queryVars, catalogVars>>

\* append_table_index_state_suffix(dest, a, p1) and (dest2, b, p2) on one prefix
AppendStateSuffix ==
    /\ op = "init"
    /\ typ = "uint32"
    /\ \E p1, p2 \in BOOLEAN :
          /\ pres' = <<p1, p2>>
          /\ dest' = append_table_index_state_suffix_present(St(pre, NoBin), a, p1).dest
          /\ dest2' = append_table_index_state_suffix_present(St(pre, NoBin), b, p2).dest
    /\ op' = "append_table_index_state_suffix"
    /\ UNCHANGED <<typ, a, b, pre, bin, out, err>>
    /\ UNCHANGED <<storeVars, queryVars, catalogVars>>

\* inc_key(dest) on the empty or prefix-only key, or on the key just written;
\* dest2 keeps the key as it was.
IncKey ==
    /\ op \in {"init", "native_to_bin_key"}
    /\ dest' = inc_key(dest)
    /\ dest2' = dest
    /\ op' = "inc_key"
    /\ UNCHANGED <<typ, a, b, pre, bin, out, pres, err>>
    /\ UNCHANGED <<storeVars, queryVars, catalogVars>>

NextCodec ==
    \/ NativeToBinKey
    \/ LoadKeys
    \/ BinToNativeKey
    \/ BinToBinKey
    \/ QueryToBinKey
    \/ LowerBoundKey
    \/ UpperBoundKey
    \/ AppendStateSuffix
    \/ IncKey

SpecCodec == InitCodec /\ [][NextCodec]_vars

----------------------------------------------------------------------------
(* Properties of the codec, under SpecCodec *)

OrderedTypes == {"uint8", "uint16", "uint32", "uint64", "name"}

\* C1: for uint8, uint16, uint32, uint64 and name, a < b in numeric order
\* exactly when the bytes native_to_bin_key appends for a are byte-wise
\* less than those it appends for b; uint32 1, 256, 65536 and 4294967295
\* encode as 00 00 00 01, 00 00 01 00, 00 01 00 00 and FF FF FF FF.
C1_OrderPreserving ==
    (op = "native_to_bin_key" /\ typ \in OrderedTypes) =>
        /\ err = "none"
        /\ NumLess(a, b) <=> LexLess(Appended(dest), Appended(dest2))
        /\ (FitsInt(a) /\ FitsInt(b)) =>
               ((Val(a) < Val(b)) <=> LexLess(Appended(dest), Appended(dest2)))
        /\ typ = "uint32" =>
               /\ a = ToLE(1, 4) => Appended(dest) = <<0, 0, 0, 1>>
               /\ a = ToLE(256, 4) => Appended(dest) = <<0, 0, 1, 0>>
               /\ a = ToLE(65536, 4) => Appended(dest) = <<0, 1, 0, 0>>
               /\ a = Fill(4, 255) => Appended(dest) = <<255, 255, 255, 255>>

C1_Witness ==
    /\ op = "native_to_bin_key"
    /\ typ = "uint32"
    /\ a = ToLE(256, 4)
    /\ b = ToLE(65536, 4)
    /\ err = "none"
    /\ LexLess(Appended(dest), Appended(dest2))

\* C5: on one index-key prefix, for blocks m < n the key with the state
\* suffix of n sorts strictly before the key with the suffix of m, whatever
\* the present flags; at one block the present=true key sorts strictly
\* before the present=false key.
C5_StateVersionOrdering ==
    op = "append_table_index_state_suffix" =>
        /\ NumLess(a, b) => LexLess(dest2, dest)
        /\ (a = b /\ pres[1] /\ ~pres[2]) => LexLess(dest, dest2)

C5_Witness ==
    /\ op = "append_table_index_state_suffix"
    /\ a = ToLE(255, 4)
    /\ b = ToLE(256, 4)
    /\ pres = <<TRUE, FALSE>>
    /\ pre # <<>>
    /\ LexLess(dest2, dest)

RegistryKeyOps == {"bin_to_bin_key", "query_to_bin_key"}

\* C7 as stated: key-encoding a time_point, time_point_sec or
\* block_timestamp through the registry succeeds and appends the tick count
\* in big-endian order.
C7_TimestampKeysEncode ==
    (op \in RegistryKeyOps /\ typ \in Timestamps) =>
        /\ err = "none"
        /\ Appended(dest) = Reverse(a)

\* C7, amended: key-encoding a time_point, time_point_sec or block_timestamp
\* through the registry's bin_to_bin_key or query_to_bin_key fails with
\* "unsupported key type", appends nothing to dest and reads nothing.
C7_TimestampKeysRefused ==
    (op \in RegistryKeyOps /\ typ \in Timestamps) =>
        /\ err = "unsupported key type"
        /\ dest = pre
        /\ bin.pos = 0

C7_Witness ==
    /\ op = "bin_to_bin_key"
    /\ typ = "time_point"
    /\ a # b
    /\ err = "unsupported key type"

\* C9: bin_to_native_key<T> on the bytes native_to_bin_key wrote returns the
\* value written and advances the input by sizeof(T); with fewer than
\* sizeof(T) bytes left it fails with "key deserialization error" and leaves
\* the input position where it was.
C9_RoundTrip ==
    op = "bin_to_native_key" =>
        /\ typ \in {"bool", "uint8", "uint16", "uint32", "uint64", "uint128", "name", "checksum256"}
        /\ IF out.from + SizeOf(typ) <= Len(bin.data)
           THEN /\ err = "none"
                /\ out.val = (IF out.from = 0 THEN a ELSE b)
                /\ bin.pos = out.from + SizeOf(typ)
           ELSE /\ err = "key deserialization error"
                /\ bin.pos = out.from

C9_Witness ==
    /\ op = "bin_to_native_key"
    /\ typ = "uint64"
    /\ err = "none"
    /\ out.from = 8
    /\ out.val = b
    /\ b = ToLE(256, 8)
    /\ a # b

\* T is accepted as a key component: the registry's bin_to_bin_key encodes
\* a value of it.
KeyComponent(T) ==
    \E v \in ValuesOf(T) :
        bin_to_bin_key(T, St(<<>>, [data |-> Canonical(T, v), pos |-> 0])).err = "none"

\* C10: for every type supported as a key component, lower_bound_key appends
\* k bytes of 0x00 and upper_bound_key k bytes of 0xFF to dest, k =
\* get_fixed_size<T>() the width of the key encoding, the bytes already in
\* dest unchanged; so prefix + key of any value lies between the two bounds.
C10_BoundPadding ==
    (op \in {"lower_bound_key", "upper_bound_key"} /\ KeyComponent(typ)) =>
        LET k == get_fixed_size(typ)
            key == bin_to_bin_key(typ, St(pre, [data |-> Canonical(typ, a), pos |-> 0])).dest
        IN  /\ err = "none"
            /\ dest = pre \o Fill(k, IF op = "lower_bound_key" THEN 0 ELSE 255)
            /\ Len(key) = Len(pre) + k
            /\ IF op = "lower_bound_key" THEN LexLeq(dest, key) ELSE LexLeq(key, dest)

KeyEncoders == {"native_to_bin_key", "bin_to_bin_key", "query_to_bin_key"}

UnsupportedKeyTypes ==
    SignedTypes \cup CountedTypes \cup {"int128", "float64", "float128", "public_key"}

\* C12: key-encoding a value of a signed integer (int8..int64, int128), float
\* (float64, float128), string, bytes or public_key type with
\* native_to_bin_key, bin_to_bin_key or query_to_bin_key fails with
\* "unsupported key type", appends nothing to dest and reads nothing from
\* the input buffer.
C12_UnsupportedKeyTypes ==
    (op \in KeyEncoders /\ typ \in UnsupportedKeyTypes) =>
        /\ err = "unsupported key type"
        /\ dest = pre
        /\ op = "native_to_bin_key" => dest2 = pre
        /\ bin.pos = 0

\* A string handed to bin_to_bin_key with bytes in dest and in the buffer.
C12_Witness ==
    /\ op = "bin_to_bin_key"
    /\ typ = "string"
    /\ a = <<97, 98>>
    /\ bin.data = <<2, 97, 98, 0>>
    /\ pre # <<>>
    /\ err = "unsupported key type"

\* C11: inc_key keeps the length of the key; on a non-empty key that is not
\* all 0xFF it gives the immediate byte-wise successor at that length (the
\* key as a big-endian integer plus 1, the carry running from the last byte
\* toward the first); all 0xFF wraps to all 0x00; the empty key stays empty.
C11_IncKey ==
    op = "inc_key" =>
        LET k == dest2
            n == Len(dest2)
        IN  /\ Len(dest) = n
            /\ IF \A i \in 1..n : k[i] = 255
               THEN dest = Fill(n, 0)
               ELSE /\ LexLess(k, dest)
                    /\ \E i \in 1..n :
                          /\ k[i] # 255
                          /\ dest[i] = k[i] + 1
                          /\ \A j \in 1..(i - 1) : dest[j] = k[j]
                          /\ \A j \in (i + 1)..n : k[j] = 255 /\ dest[j] = 0
                    /\ FitsInt(Reverse(dest)) => Val(Reverse(dest)) = Val(Reverse(k)) + 1

\* A carry that runs over two bytes into the prefix: 70 07 ff ff -> 70 08 00 00.
C11_Witness ==
    /\ op = "inc_key"
    /\ dest2 = <<112, 7, 255, 255>>
    /\ dest = <<112, 8, 0, 0>>

----------------------------------------------------------------------------
(* Key-space layout *)

key_tag ==
    [fill_status |-> 16, block |-> 32, received_block |-> 48, table_row |-> 80,
     table_delta |-> 96, table_index |-> 112, table_index_ref |-> 128]

\* The entries of table_names the model uses, as abieos::name values.
table_names ==
    [contract_row |-> <<0, 0, 0, 0, 0, 78, 47, 64>>,
     account |-> <<0, 0, 0, 32, 79, 77, 17, 50>>,
     block_info |-> <<0, 0, 93, 211, 1, 136, 104, 60>>]

Empty == St(<<>>, NoBin)

\* make_block_key()
make_block_key0 == native_to_bin_key("uint8", Empty, <<key_tag.block>>).dest

\* A block key whose block number is left in its native byte order.
make_block_key_native(block) == make_block_key0 \o block

\* make_block_key(block)
make_block_key(block) ==
    native_to_bin_key("uint32", St(make_block_key0, NoBin), block).dest

make_fill_status_key == native_to_bin_key("uint8", Empty, <<key_tag.fill_status>>).dest

make_received_block_key(block) ==
    native_to_bin_key("uint8", St(make_block_key(block), NoBin), <<key_tag.received_block>>).dest

make_table_row_key(block) ==
    native_to_bin_key("uint8", St(make_block_key(block), NoBin), <<key_tag.table_row>>).dest

\* append_delta_key(dest, block), dest empty
append_delta_key_block(block) ==
    native_to_bin_key("uint8", St(make_block_key(block), NoBin), <<key_tag.table_delta>>).dest

\* append_delta_key(dest, block, present, table), dest empty
append_delta_key(block, present, table) ==
    LET n == native_to_bin_key("name", St(append_delta_key_block(block), NoBin), table)
    IN  native_to_bin_key("bool", n, Bool(present)).dest

\* make_table_index_key(table, index)
make_table_index_key(table, index) ==
    LET t == native_to_bin_key("uint8", Empty, <<key_tag.table_index>>)
        n == native_to_bin_key("name", t, table)
    IN  native_to_bin_key("name", n, index).dest

\* make_table_index_ref_key(block, table_key, table_index_key)
make_table_index_ref_key(block, table_key, table_index_key) ==
    LET t == native_to_bin_key("uint8", Empty, <<key_tag.table_index_ref>>)
        n == native_to_bin_key("uint32", t, block)
    IN  n.dest \o table_key \o table_index_key

----------------------------------------------------------------------------
(* Catalog: tables, fields and their byte positions *)

Unset == [set |-> FALSE, pos |-> 0]

\* The byte_position loop with the size test before the assignment.
RECURSIVE prepare_stop_before(_, _, _)
prepare_stop_before(fields, i, pos) ==
    IF i > Len(fields) THEN <<>>
    ELSE LET size == get_fixed_size(fields[i].type)
         IN  IF size = 0 THEN [j \in 1..(Len(fields) - i + 1) |-> Unset]
             ELSE <<[set |-> TRUE, pos |-> pos]>> \o prepare_stop_before(fields, i + 1, pos + size)

\* The byte_position loop of config::prepare over one table's fields, from
\* field i on with pos bytes before it.
RECURSIVE prepare(_, _, _)
prepare(fields, i, pos) ==
    IF i > Len(fields) THEN <<>>
    ELSE LET size == get_fixed_size(fields[i].type)
         IN  <<[set |-> TRUE, pos |-> pos]>> \o
                 (IF size = 0 THEN [j \in 1..(Len(fields) - i) |-> Unset]
                  ELSE prepare(fields, i + 1, pos + size))

\* A table of the query configuration after prepare: its fields carry
\* their byte_position.
Table(name, state, fields, pk, indexes) ==
    LET at == prepare(fields, 1, 0)
    IN  [name |-> name,
         short_name |-> table_names[name],
         is_state |-> state,
         fields |-> [i \in 1..Len(fields) |->
                        [name |-> fields[i].name, type |-> fields[i].type, byte_position |-> at[i]]],
         pk |-> pk,
         indexes |-> indexes]

\* The keys (references to fields) of table t at the field numbers ks.
Keys(t, ks) == [i \in 1..Len(ks) |-> t.fields[ks[i]]]

\* append_fields: the fields keys name, sliced out of the row src at their
\* byte positions and appended to dest in key form or as they are.
RECURSIVE append_fields(_, _, _, _)
append_fields(st, src, keys, xform_key) ==
    IF keys = <<>> \/ st.err # "none" THEN st
    ELSE LET key == Head(keys)
         IN  IF ~key.byte_position.set
             THEN Throw(st, "key has unknown position")
             ELSE IF key.byte_position.pos > Len(src)
             THEN Throw(st, "key position is out of range")
             ELSE LET at == [st EXCEPT !.bin = [data |-> src, pos |-> key.byte_position.pos]]
                      r == IF xform_key THEN bin_to_bin_key(key.type, at)
                           ELSE bin_to_bin(key.type, at)
                  IN  append_fields(r, src, Tail(keys), xform_key)

----------------------------------------------------------------------------
(* The configured tables *)

\* Index (and query) names, as abieos::name values: cr.pk, cr.two,
\* cr.nolimit, acc.name, bi.num.
index_names ==
    [cr_pk |-> <<0, 0, 0, 0, 0, 88, 193, 69>>,
     cr_two |-> <<0, 0, 0, 0, 80, 158, 193, 69>>,
     cr_nolimit |-> <<0, 64, 118, 210, 69, 58, 193, 69>>,
     acc_name |-> <<0, 0, 0, 74, 154, 9, 16, 50>>,
     bi_num |-> <<0, 0, 0, 0, 72, 61, 129, 59>>]

\* contract_row: a state table, rows (id, owner, ver)
ContractRow ==
    Table("contract_row", TRUE,
          <<[name |-> "id", type |-> "uint8"], [name |-> "owner", type |-> "uint16"],
            [name |-> "ver", type |-> "uint8"]>>,
          <<1>>,
          <<[name |-> index_names.cr_pk, fields |-> <<1>>],
            [name |-> index_names.cr_two, fields |-> <<1, 2>>],
            [name |-> index_names.cr_nolimit, fields |-> <<1>>]>>)

\* account: a state table, rows (name, data)
Account ==
    Table("account", TRUE,
          <<[name |-> "name", type |-> "uint16"], [name |-> "data", type |-> "uint16"]>>,
          <<1>>,
          <<[name |-> index_names.acc_name, fields |-> <<1>>]>>)

\* block_info: a table without versions, rows (num)
BlockInfo ==
    Table("block_info", FALSE,
          <<[name |-> "num", type |-> "uint8"]>>,
          <<1>>,
          <<[name |-> index_names.bi_num, fields |-> <<1>>]>>)

----------------------------------------------------------------------------
(* Query engine *)

\* abieos::read_raw / bin_to_native of an n-byte scalar: [val, bin, err]
read_raw(i, n) ==
    IF Remaining(i) < n THEN [val |-> <<>>, bin |-> i, err |-> "read past end"]
    ELSE [val |-> SubSeq(i.data, i.pos + 1, i.pos + n),
          bin |-> [i EXCEPT !.pos = @ + n],
          err |-> "none"]

\* std::min on uint32_t
MinU32(x, y) == IF NumLess(y, x) THEN y ELSE x

\* memcmp(k, upper, min(k.size(), upper.size())) <= 0
PrefixLeq(k, upper) ==
    LET n == Min(Len(k), Len(upper))
    IN  LexLeq(SubSeq(k, 1, n), SubSeq(upper, 1, n))

\* The keys of S in ascending byte order.
RECURSIVE SortKeys(_)
SortKeys(S) ==
    IF S = {} THEN <<>>
    ELSE LET m == CHOOSE x \in S : \A y \in S : LexLeq(x, y)
         IN  <<m>> \o SortKeys(S \ {m})

\* rdb::for_each(db, lower, upper, f): the keys handed to f while it returns
\* true, in order: those from lower on that do not pass upper.
for_each(d, lower, upper) ==
    SortKeys({k \in DOMAIN d : LexLeq(lower, k) /\ PrefixLeq(k, upper)})

\* rdb::for_each_subkey(db, first, last, f): the distinct index-field
\* prefixes of the keys between first and last, in order.
for_each_subkey(d, first, last) ==
    LET n == Len(first)
    IN  SortKeys({SubSeq(k, 1, n) :
                    k \in {x \in DOMAIN d : /\ Len(x) >= n
                                           /\ LexLeq(first, SubSeq(x, 1, n))
                                           /\ LexLeq(SubSeq(x, 1, n), last)}})

\* A query of the configuration.
Query(name, table, limit_block_num, range_types, max_results, join) ==
    [name |-> name, table |-> table, is_state |-> table.is_state,
     limit_block_num |-> limit_block_num, arg_types |-> <<>>,
     range_types |-> range_types, max_results |-> max_results, join |-> join]

NoJoin == [set |-> FALSE]

\* query_config.query_map
query_map ==
    LET qs == {Query(index_names.cr_pk, ContractRow, TRUE, <<"uint8">>, 2, NoJoin),
               Query(index_names.cr_two, ContractRow, TRUE, <<"uint8", "uint16">>, 2,
                     [set |-> TRUE,
                      join_table |-> Account,
                      join_query_wasm_name |-> index_names.acc_name,
                      join_query_is_state |-> TRUE,
                      join_key_values |-> Keys(ContractRow, <<2>>),
                      fields_from_join |-> Keys(Account, <<2>>)]),
               Query(index_names.cr_nolimit, ContractRow, FALSE, <<"uint8">>, 2, NoJoin)}
    IN  [n \in {q.name : q \in qs} |-> CHOOSE q \in qs : q.name = n]

\* The add_fields lambda: one query argument per type, onto dest in key form.
RECURSIVE add_fields(_, _)
add_fields(st, types) ==
    IF types = <<>> \/ st.err # "none" THEN st
    ELSE add_fields(query_to_bin_key(Head(types), st), Tail(types))

\* The bounds read one range type at a time, lower then upper.
RECURSIVE range_bounds_interleaved(_, _, _, _)
range_bounds_interleaved(first, last, types, i) ==
    IF types = <<>> THEN [first |-> first, last |-> last, bin |-> i, err |-> "none"]
    ELSE LET upper(f) ==
                 IF f.err # "none"
                 THEN [first |-> f.dest, last |-> last, bin |-> f.bin, err |-> f.err]
                 ELSE LET rest(l) ==
                              IF l.err # "none"
                              THEN [first |-> f.dest, last |-> l.dest, bin |-> l.bin, err |-> l.err]
                              ELSE range_bounds_interleaved(f.dest, l.dest, Tail(types), l.bin)
                      IN  rest(query_to_bin_key(Head(types), St(last, f.bin)))
         IN  upper(query_to_bin_key(Head(types), St(first, i)))

\* first and last of query_database: add_fields(first, range_types), then
\* add_fields(last, range_types), both reading query_bin.
range_bounds(first, last, types, i) ==
    LET upper(f) ==
            IF f.err # "none"
            THEN [first |-> f.dest, last |-> last, bin |-> f.bin, err |-> f.err]
            ELSE LET both(l) == [first |-> f.dest, last |-> l.dest, bin |-> l.bin, err |-> l.err]
                 IN  both(add_fields(St(last, f.bin), types))
    IN  upper(add_fields(St(first, i), types))

\* The inner for_each without the block limit: from index_key itself.
as_of_scan_latest(d, is_state, index_key, max_block_num) == for_each(d, index_key, index_key)

\* The inner for_each of query_database on index_key: the entries it visits.
as_of_scan(d, is_state, index_key, max_block_num) ==
    LET index_key_limit_block ==
            IF is_state THEN append_table_index_state_suffix(St(index_key, NoBin), max_block_num).dest
            ELSE index_key
    IN  for_each(d, index_key_limit_block, index_key)

\* db->Get of the key an index entry holds, through rdb::check.
get_row(d, entry) ==
    IF d[entry] \in DOMAIN d THEN [err |-> "none", value |-> d[d[entry]]]
    ELSE [err |-> "query_database: NotFound", value |-> <<>>]

\* The join without the pop_back: a row without a join entry stays.
join_row_keep(d, query, max_block_num, delta_value) ==
    LET j == query.join
        taken(found) ==
            IF found = <<>> THEN [rows |-> <<delta_value>>, err |-> "none", join |-> <<>>]
            ELSE LET loaded(got) ==
                         IF got.err # "none"
                         THEN [rows |-> <<>>, err |-> got.err, join |-> Head(found)]
                         ELSE LET appended(row) ==
                                      [rows |-> <<row.dest>>, err |-> row.err, join |-> Head(found)]
                              IN  appended(append_fields(St(delta_value, NoBin), got.value,
                                                         j.fields_from_join, FALSE))
                 IN  loaded(get_row(d, Head(found)))
        lookup(join_key) ==
            IF join_key.err # "none" THEN [rows |-> <<>>, err |-> join_key.err, join |-> <<>>]
            ELSE taken(as_of_scan(d, j.join_query_is_state, join_key.dest, max_block_num))
    IN  lookup(append_fields(St(make_table_index_key(j.join_table.short_name,
                                                     j.join_query_wasm_name), NoBin),
                             delta_value, j.join_key_values, TRUE))

\* The join of query_database for the outer row delta_value: [rows, err,
\* join], rows the outer row with the join fields, or nothing after the
\* pop_back; join the entry of the join index that was taken.
join_row(d, query, max_block_num, delta_value) ==
    LET j == query.join
        taken(found) ==
            IF found = <<>> THEN [rows |-> <<>>, err |-> "none", join |-> <<>>]
            ELSE LET loaded(got) ==
                         IF got.err # "none"
                         THEN [rows |-> <<>>, err |-> got.err, join |-> Head(found)]
                         ELSE LET appended(row) ==
                                      [rows |-> <<row.dest>>, err |-> row.err, join |-> Head(found)]
                              IN  appended(append_fields(St(delta_value, NoBin), got.value,
                                                         j.fields_from_join, FALSE))
                 IN  loaded(get_row(d, Head(found)))
        lookup(join_key) ==
            IF join_key.err # "none" THEN [rows |-> <<>>, err |-> join_key.err, join |-> <<>>]
            ELSE taken(as_of_scan(d, j.join_query_is_state, join_key.dest, max_block_num))
    IN  lookup(append_fields(St(make_table_index_key(j.join_table.short_name,
                                                     j.join_query_wasm_name), NoBin),
                             delta_value, j.join_key_values, TRUE))

\* The callback of for_each_subkey for one index_key: [rows, err, entry,
\* join], entry the index entry taken.
group_rows(d, query, max_block_num, index_key) ==
    LET taken(found) ==
            IF found = <<>> THEN [rows |-> <<>>, err |-> "none", entry |-> <<>>, join |-> <<>>]
            ELSE LET loaded(got) ==
                         IF got.err # "none"
                         THEN [rows |-> <<>>, err |-> got.err, entry |-> Head(found), join |-> <<>>]
                         ELSE IF ~query.join.set
                         THEN [rows |-> <<got.value>>, err |-> "none", entry |-> Head(found),
                               join |-> <<>>]
                         ELSE LET with_join(joined) ==
                                      [rows |-> joined.rows, err |-> joined.err,
                                       entry |-> Head(found), join |-> joined.join]
                              IN  with_join(join_row(d, query, max_block_num, got.value))
                 IN  loaded(get_row(d, Head(found)))
    IN  taken(as_of_scan(d, query.is_state, index_key, max_block_num))

\* The outer scan: the callback runs on each group until it returns false,
\* ++num_results < max_results.
RECURSIVE scan(_, _, _, _, _, _)
scan(d, query, max_block_num, max_results, groups, acc) ==
    IF groups = <<>> THEN acc
    ELSE LET step(g) ==
                 LET continue(next) ==
                         IF g.err # "none" THEN next
                         ELSE IF next.num_results < max_results
                         THEN scan(d, query, max_block_num, max_results, Tail(groups), next)
                         ELSE next
                 IN  continue([rows |-> acc.rows \o g.rows,
                               err |-> g.err,
                               num_results |-> acc.num_results + 1,
                               groups |-> Append(acc.groups,
                                                 [index_key |-> Head(groups), entry |-> g.entry,
                                                  join |-> g.join, rows |-> g.rows])])
         IN  step(group_rows(d, query, max_block_num, Head(groups)))

\* abieos::native_to_bin of the rows: a counted array of counted byte arrays.
RECURSIVE rows_to_bin(_)
rows_to_bin(rows) ==
    IF rows = <<>> THEN <<>>
    ELSE push_varuint32(Len(Head(rows))) \o Head(rows) \o rows_to_bin(Tail(rows))

NoResult ==
    [err |-> "none", max_block_num |-> <<>>, first |-> <<>>, last |-> <<>>, max_results |-> 0,
     num_results |-> 0, rows |-> <<>>, groups |-> <<>>, result |-> <<>>]

Failed(e) == [NoResult EXCEPT !.err = e]

\* query_database from the range arguments on: query_bin stands at them,
\* max_block_num is computed.
query_range(d, query, query_name, query_bin, max_block_num) ==
    LET index == make_table_index_key(query.table.short_name, query_name)
        capped(bounds) ==
            IF bounds.err # "none" THEN Failed(bounds.err)
            ELSE LET limited(requested) ==
                         IF requested.err # "none" THEN Failed(requested.err)
                         ELSE LET max_results == Min(Val(requested.val), query.max_results)
                                  returned(done) ==
                                      [err |-> done.err,
                                       max_block_num |-> max_block_num,
                                       first |-> bounds.first,
                                       last |-> bounds.last,
                                       max_results |-> max_results,
                                       num_results |-> done.num_results,
                                       rows |-> done.rows,
                                       groups |-> done.groups,
                                       result |-> IF done.err = "none"
                                                  THEN push_varuint32(Len(done.rows))
                                                           \o rows_to_bin(done.rows)
                                                  ELSE <<>>]
                              IN  returned(scan(d, query, max_block_num, max_results,
                                                for_each_subkey(d, bounds.first, bounds.last),
                                                [rows |-> <<>>, err |-> "none",
                                                 num_results |-> 0, groups |-> <<>>]))
                 IN  limited(read_raw(bounds.bin, 4))
    IN  capped(range_bounds(index, index, query.range_types, query_bin))

\* query_database from the lookup of the query on.
query_found(d, query_name, head) ==
    IF query_name.err # "none" THEN Failed(query_name.err)
    ELSE IF query_name.val \notin DOMAIN query_map THEN Failed("query_database: unknown query")
    ELSE LET query == query_map[query_name.val]
             limit(as_of) ==
                 IF as_of.err # "none" THEN Failed(as_of.err)
                 ELSE query_range(d, query, query_name.val, as_of.bin, MinU32(head, as_of.val))
         IN  IF query.arg_types # <<>> THEN Failed("query_database: query not implemented")
             ELSE IF query.limit_block_num THEN limit(read_raw(query_name.bin, 4))
             ELSE query_range(d, query, query_name.val, query_name.bin, ToLE(0, 4))

\* query_database(query_bin, head) on the store d
query_database(d, query_bin, head) ==
    query_found(d, read_raw([data |-> query_bin, pos |-> 0], 8), head)

----------------------------------------------------------------------------
(* The writer that fills the store *)

\* Key format table: the key of a row of t written in block.
RowKey(t, block, present, row) ==
    LET head == IF t.is_state THEN append_delta_key(block, present, t.short_name)
                ELSE native_to_bin_key("name", St(make_table_row_key(block), NoBin), t.short_name).dest
    IN  append_fields(St(head, NoBin), row, Keys(t, t.pk), TRUE).dest

\* Key format table: the key of the entry of index ix for that row.
IndexKey(t, ix, block, present, row) ==
    LET fields == append_fields(St(make_table_index_key(t.short_name, ix.name), NoBin),
                                row, Keys(t, ix.fields), TRUE)
    IN  IF t.is_state THEN append_table_index_state_suffix_present(fields, block, present).dest
        ELSE fields.dest

\* The store d with the (key, value) pairs of es put.
PutAll(d, es) ==
    [k \in DOMAIN d \cup {e[1] : e \in es} |->
        IF \E e \in es : e[1] = k THEN (CHOOSE e \in es : e[1] = k)[2] ELSE d[k]]

\* What the writer puts for one row: the row, one entry per index whose
\* value is the row's key, and one back-reference per index entry.
RowEntries(t, block, present, row) ==
    LET rk == RowKey(t, block, present, row)
    IN  {<<rk, row>>}
            \cup {<<IndexKey(t, t.indexes[i], block, present, row), rk>> : i \in 1..Len(t.indexes)}
            \cup {<<make_table_index_ref_key(block, rk, IndexKey(t, t.indexes[i], block, present, row)), <<>>>> :
                       i \in 1..Len(t.indexes)}

MaxWrites == 3

\* Block numbers on both sides of a byte boundary, and the largest.
StoreBlocks == {ToLE(255, 4), ToLE(256, 4), Fill(4, 255)}

\* A contract_row row (id, owner, ver).
ContractRowOf(id, block, present) ==
    <<id, 16 + id, 2, (2 * block[1] + (IF present THEN 1 ELSE 0)) % 256>>

\* The rows the writer puts in the store specification: a table, the block
\* that writes the row, whether the row is present, and the row.
StoreRows ==
    {[t |-> BlockInfo, block |-> n, present |-> TRUE, row |-> <<n[1]>>] : n \in StoreBlocks}
        \cup {[t |-> ContractRow, block |-> n, present |-> p, row |-> ContractRowOf(1, n, p)] :
                  n \in StoreBlocks, p \in BOOLEAN}

\* The blocks of the query specification.
QueryBlocks == {ToLE(5, 4), ToLE(8, 4), ToLE(12, 4)}

\* An account row (name, data); the name is the owner of contract_row 1.
AccountRowOf(block, present) == <<17, 2, block[1], 64 + (IF present THEN 1 ELSE 0)>>

\* The rows the writer puts in the query specification.
QueryRows ==
    {[t |-> ContractRow, block |-> n, present |-> p, row |-> ContractRowOf(id, n, p)] :
        id \in {1, 2}, n \in QueryBlocks, p \in BOOLEAN}
        \cup {[t |-> Account, block |-> n, present |-> p, row |-> AccountRowOf(n, p)] :
                  n \in QueryBlocks \ {ToLE(8, 4)}, p \in BOOLEAN}

Rows == StoreRows \cup QueryRows

\* The keys and entries of every row, computed once.
RowKeyOf == [w \in Rows |-> RowKey(w.t, w.block, w.present, w.row)]

RowEntriesOf == [w \in Rows |-> RowEntries(w.t, w.block, w.present, w.row)]

WriteFillStatus ==
    /\ writes < MaxWrites
    /\ make_fill_status_key \notin DOMAIN db
    /\ db' = PutAll(db, {<<make_fill_status_key, <<>>>>})
    /\ writes' = writes + 1
    /\ op' = "write"
    /\ before' = <<>>
    /\ erase_n' = <<>>
    /\ UNCHANGED <<codecVars, err, queryVars, catalogVars>>

WriteReceivedBlock(block) ==
    /\ writes < MaxWrites
    /\ make_received_block_key(block) \notin DOMAIN db
    /\ db' = PutAll(db, {<<make_received_block_key(block), block>>})
    /\ writes' = writes + 1
    /\ op' = "write"
    /\ before' = <<>>
    /\ erase_n' = <<>>
    /\ UNCHANGED <<codecVars, err, queryVars, catalogVars>>

\* One row w.row of table w.t, written in w.block (a delta if the table is
\* a state table).
WriteRow(w) ==
    /\ writes < MaxWrites
    /\ RowKeyOf[w] \notin DOMAIN db
    /\ db' = PutAll(db, RowEntriesOf[w])
    /\ writes' = writes + 1
    /\ op' = "write"
    /\ before' = <<>>
    /\ erase_n' = <<>>
    /\ UNCHANGED <<codecVars, err, queryVars, catalogVars>>

\* Note 1 of the key format table: erase the keys from make_block_key(n)
\* up to, not including, the key after make_block_key().
EraseBlocks(n) ==
    /\ db # <<>>
    /\ LET lower == make_block_key(n)
           upper == inc_key(make_block_key0)
       IN  db' = [k \in {x \in DOMAIN db : ~(LexLeq(lower, x) /\ LexLess(x, upper))} |-> db[k]]
    /\ before' = db
    /\ erase_n' = n
    /\ op' = "erase"
    /\ UNCHANGED <<codecVars, err, writes, queryVars, catalogVars>>

InitStore ==
    /\ typ = "uint32"
    /\ a = <<>>
    /\ b = <<>>
    /\ pre = <<>>
    /\ dest = <<>>
    /\ dest2 = <<>>
    /\ bin = NoBin
    /\ out = [val |-> <<>>, from |-> 0]
    /\ pres = <<TRUE, TRUE>>
    /\ err = "none"
    /\ op = "init"
    /\ db = <<>>
    /\ writes = 0
    /\ before = <<>>
    /\ erase_n = <<>>
    /\ call = <<>>
    /\ res = <<>>
    /\ tab = <<>>
    /\ field_no = 0

NextStore ==
    \/ WriteFillStatus
    \/ \E n \in StoreBlocks : WriteReceivedBlock(n)
    \/ \E w \in StoreRows : WriteRow(w)
    \/ \E n \in StoreBlocks : EraseBlocks(n)

SpecStore == InitStore /\ [][NextStore]_vars

----------------------------------------------------------------------------
(* Properties of the key-space layout, under SpecStore *)

IsPrefix(p, k) == Len(p) <= Len(k) /\ SubSeq(k, 1, Len(p)) = p

\* The heads of the per-block key families at each block.
PerBlockHeads ==
    [m \in StoreBlocks |->
        {make_received_block_key(m), make_table_row_key(m), append_delta_key_block(m)}]

\* The keys of d in one of the per-block families at block m.
PerBlock(d, m) == {k \in DOMAIN d : \E h \in PerBlockHeads[m] : IsPrefix(h, k)}

\* The keys of d that are not per-block data.
NotPerBlock(d) ==
    {k \in DOMAIN d : k[1] \in {key_tag.fill_status, key_tag.table_index, key_tag.table_index_ref}}

\* C4: after the range erase for block n, the store holds no received-block,
\* table-row or table-delta key of a block >= n, and every per-block key of
\* a block < n and every fill_status, table_index and table_index_ref key
\* it held is still there with its value.
C4_BlockTruncation ==
    op = "erase" =>
        /\ DOMAIN db \subseteq DOMAIN before
        /\ \A m \in StoreBlocks :
              IF NumLess(m, erase_n)
              THEN \A k \in PerBlock(before, m) : k \in DOMAIN db /\ db[k] = before[k]
              ELSE PerBlock(db, m) = {}
        /\ \A k \in NotPerBlock(before) : k \in DOMAIN db /\ db[k] = before[k]

C4_Witness ==
    /\ op = "erase"
    /\ erase_n = ToLE(256, 4)
    /\ PerBlock(before, ToLE(255, 4)) # {}
    /\ PerBlock(before, ToLE(256, 4)) # {}
    /\ PerBlock(db, ToLE(255, 4)) # {}
    /\ NotPerBlock(db) # {}

----------------------------------------------------------------------------
(* The query specification: the writer fills the store, then one query *)

\* query_bin: the query name, the as-of block if the query takes one, the
\* range arguments and the requested cap, one after the other.
Pack(c) == c.name \o c.as_of \o c.args \o c.cap

\* (as-of block, head): a version's own block, a block between two
\* versions, and a head before the as-of block.
AsOfHeads ==
    {<<ToLE(8, 4), ToLE(12, 4)>>, <<ToLE(10, 4), ToLE(12, 4)>>, <<ToLE(12, 4), ToLE(10, 4)>>}

Calls ==
    {[name |-> index_names.cr_pk, as_of |-> ah[1], head |-> ah[2], args |-> r, cap |-> ToLE(c, 4)] :
        ah \in AsOfHeads, r \in {<<1, 1>>, <<1, 2>>}, c \in {0, 1, 3}}
    \cup
    {[name |-> index_names.cr_two, as_of |-> ah[1], head |-> ah[2], args |-> r, cap |-> ToLE(c, 4)] :
        ah \in AsOfHeads, r \in {<<1, 0, 0, 2, 255, 255>>, <<1, 17, 2, 1, 17, 2>>}, c \in {1, 3}}
    \cup
    {[name |-> index_names.cr_nolimit, as_of |-> <<>>, head |-> ToLE(12, 4), args |-> r, cap |-> ToLE(c, 4)] :
        r \in {<<1, 2>>}, c \in {1, 3}}

QueryDatabase(c) ==
    /\ call' = c
    /\ res' = query_database(db, Pack(c), c.head)
    /\ err' = res'.err
    /\ op' = "query"
    /\ UNCHANGED <<codecVars, storeVars, catalogVars>>

\* query_database reads the store and leaves it as it is: a behaviour is
\* the writes that build a store, then one call on it.
NextQuery ==
    \/ op # "query" /\ \E w \in QueryRows : WriteRow(w)
    \/ op # "query" /\ \E c \in Calls : QueryDatabase(c)

SpecQuery == InitStore /\ [][NextQuery]_vars

----------------------------------------------------------------------------
(* The catalog specification: config::prepare on a table, then append_fields *)
(* on one of its fields                                                      *)

MaxFields == 3

FieldTypes == {"uint8", "uint16", "uint64", "string", "time_point_sec"}

\* The lists of field types a table is declared with.
FieldLists == UNION {[1..n -> FieldTypes] : n \in 1..MaxFields}

\* The serialised value of field j of the row, of type T.
RowField(T, j) ==
    CASE T = "uint8" -> <<j>>
      [] T = "uint16" -> <<j, 16 + j>>
      [] T = "uint64" -> <<j, 0, 0, 0, 0, 0, 0, 32 + j>>
      [] T = "string" -> <<1, 96 + j>>
      [] T = "time_point_sec" -> <<j, 48, 0, 0>>

\* The row of a table: its fields' values one after the other.
RECURSIVE RowOfFields(_, _)
RowOfFields(fields, j) ==
    IF j > Len(fields) THEN <<>>
    ELSE RowField(fields[j].type, j) \o RowOfFields(fields, j + 1)

InitCatalog == InitStore

\* config::prepare on a contract_row table declared with the field types ts
Prepare ==
    /\ op = "init"
    /\ \E ts \in FieldLists :
          tab' = Table("contract_row", TRUE,
                       [j \in 1..Len(ts) |-> [name |-> j, type |-> ts[j]]], <<1>>, <<>>)
    /\ op' = "prepare"
    /\ UNCHANGED <<codecVars, err, storeVars, queryVars, field_no>>

\* append_fields(dest, row, {field i}, xform_key) on an empty dest
AppendFields ==
    /\ op = "prepare"
    /\ \E i \in 1..Len(tab.fields), xform_key \in BOOLEAN :
          LET r == append_fields(St(<<>>, NoBin), RowOfFields(tab.fields, 1), Keys(tab, <<i>>),
                                 xform_key)
          IN  /\ dest' = r.dest
              /\ err' = r.err
              /\ field_no' = i
              /\ pres' = <<xform_key, xform_key>>
    /\ op' = "append_fields"
    /\ UNCHANGED <<typ, a, b, pre, dest2, bin, out, storeVars, queryVars, tab>>

NextCatalog ==
    \/ Prepare
    \/ AppendFields

SpecCatalog == InitCatalog /\ [][NextCatalog]_vars

----------------------------------------------------------------------------
(* Properties of the catalog, under SpecCatalog *)

\* The number of the first field of fs whose get_fixed_size() is 0, or one
\* past the last field.
RECURSIVE FirstVariable(_, _)
FirstVariable(fs, i) ==
    IF i > Len(fs) \/ get_fixed_size(fs[i].type) = 0 THEN i ELSE FirstVariable(fs, i + 1)

\* The sum of get_fixed_size() over the fields before field i.
RECURSIVE SizeBefore(_, _)
SizeBefore(fs, i) ==
    IF i <= 1 THEN 0 ELSE SizeBefore(fs, i - 1) + get_fixed_size(fs[i - 1].type)

\* C13 (as stated): byte_position is set exactly for the leading run of
\* fixed-size fields, each at the sum of the sizes before it; the first
\* field whose get_fixed_size() is 0 and every field after it are unset,
\* and append_fields rejects them with the unknown-position error.
C13_FixedOffsetPrefix ==
    op \in {"prepare", "append_fields"} =>
        LET v == FirstVariable(tab.fields, 1)
        IN  /\ \A i \in 1..Len(tab.fields) :
                  /\ tab.fields[i].byte_position.set <=> i < v
                  /\ i < v => tab.fields[i].byte_position.pos = SizeBefore(tab.fields, i)
            /\ (op = "append_fields" /\ field_no >= v) => err = "key has unknown position"

\* C13 (amended): byte_position is set for the leading run of fixed-size
\* fields and for the first field whose get_fixed_size() is 0, each at the
\* sum of the sizes before it; only the fields after that first field are
\* unset.  append_fields rejects exactly those with the unknown-position
\* error and copies the first variable-size field from its offset.
C13_FixedOffsetThroughFirstVariable ==
    op \in {"prepare", "append_fields"} =>
        LET v == FirstVariable(tab.fields, 1)
        IN  /\ \A i \in 1..Len(tab.fields) :
                  /\ tab.fields[i].byte_position.set <=> i <= v
                  /\ i <= v => tab.fields[i].byte_position.pos = SizeBefore(tab.fields, i)
            /\ op = "append_fields" =>
                  /\ err = "key has unknown position" <=> field_no > v
                  /\ field_no > v => dest = <<>>
                  /\ (field_no <= v /\ ~pres[1]) =>
                         /\ err = "none"
                         /\ dest = RowField(tab.fields[field_no].type, field_no)

\* A string after a fixed-size field: it has offset 1 and append_fields
\* copies it, while the field after it is rejected.
C13_Witness ==
    /\ op = "append_fields"
    /\ Len(tab.fields) = 3
    /\ tab.fields[1].type = "uint8"
    /\ tab.fields[2].type = "string"
    /\ tab.fields[3].type = "uint16"
    /\ tab.fields[2].byte_position = [set |-> TRUE, pos |-> 1]
    /\ ~tab.fields[3].byte_position.set
    /\ field_no = 2
    /\ ~pres[1]
    /\ err = "none"
    /\ dest = <<1, 98>>

----------------------------------------------------------------------------
(* Properties of query_database *)

\* What the suffix of a state index entry says: the block that wrote it,
\* as a little-endian uint32, and whether the row is present.
SuffixBlock(k) == Reverse(BitNot(SubSeq(k, Len(k) - 4, Len(k) - 1)))

SuffixPresent(k) == k[Len(k)] = 0

\* The entries of d in the group index_key.
GroupEntries(d, index_key) ==
    {k \in DOMAIN d : Len(k) = Len(index_key) + 5 /\ IsPrefix(index_key, k)}

\* Those a lookup as of max_block may return.
Eligible(d, index_key, max_block) ==
    {k \in GroupEntries(d, index_key) : ~NumLess(max_block, SuffixBlock(k))}

\* k is the entry of S with the greatest block, the present one first.
IsNewest(S, k) ==
    /\ k \in S
    /\ \A o \in S \ {k} :
          \/ NumLess(SuffixBlock(o), SuffixBlock(k))
          \/ SuffixBlock(o) = SuffixBlock(k) /\ SuffixPresent(k)

\* The rows of the groups gs, one group after the other.
RECURSIVE RowsOf(_)
RowsOf(gs) == IF gs = <<>> THEN <<>> ELSE Head(gs).rows \o RowsOf(Tail(gs))

LimitedQueries == {index_names.cr_pk, index_names.cr_two}

\* C2: in a state query with limit_block_num, with max_block = min(head,
\* as-of block), every group visited takes the index entry with the greatest
\* block <= max_block (the present one before the tombstone at one block),
\* never an entry of a later block, and emits the row that entry refers to;
\* a group without such an entry emits nothing.
C2_AsOfLookup ==
    (op = "query" /\ res.err = "none" /\ call.name \in LimitedQueries) =>
        LET max_block == IF NumLess(call.head, call.as_of) THEN call.head ELSE call.as_of
        IN  /\ res.rows = RowsOf(res.groups)
            /\ \A i \in 1..Len(res.groups) :
                  LET g == res.groups[i]
                      S == Eligible(db, g.index_key, max_block)
                  IN  IF S = {} THEN g.entry = <<>> /\ g.rows = <<>>
                      ELSE /\ IsNewest(S, g.entry)
                           /\ call.name = index_names.cr_pk => g.rows = <<db[db[g.entry]]>>
                           /\ \A j \in 1..Len(g.rows) :
                                 SubSeq(g.rows[j], 1, Len(db[db[g.entry]])) = db[db[g.entry]]

\* Versions at blocks 5 (present), 8 (tombstone) and 12 (present), read as
\* of block 10: the tombstone's row of block 8 is returned.
C2_Witness ==
    /\ op = "query"
    /\ call.name = index_names.cr_pk
    /\ res.err = "none"
    /\ res.max_block_num = ToLE(10, 4)
    /\ Len(res.groups) = 1
    /\ {<<SuffixBlock(k), SuffixPresent(k)>> : k \in GroupEntries(db, res.groups[1].index_key)}
           = {<<ToLE(5, 4), TRUE>>, <<ToLE(8, 4), FALSE>>, <<ToLE(12, 4), TRUE>>}
    /\ res.rows = <<ContractRowOf(1, ToLE(8, 4), FALSE)>>

\* C3: the number of groups emitted, and so the number of rows returned,
\* never exceeds cap = min(requested cap, query.max_results), for every cap
\* including 0; with at least cap matching groups exactly cap are emitted.
C3_ResultCap ==
    (op = "query" /\ res.err = "none") =>
        LET cap == Min(Val(call.cap), query_map[call.name].max_results)
            matching == for_each_subkey(db, res.first, res.last)
        IN  /\ Len(res.groups) <= cap
            /\ Len(res.rows) <= cap
            /\ Len(matching) >= cap => Len(res.groups) = cap

\* The fields of the configured rows: the owner of a contract_row row in key
\* form, and the data of an account row as it is stored.
OwnerKey(row) == Reverse(SubSeq(row, 2, 3))

AccountData(row) == SubSeq(row, 3, 4)

\* C6: in a query with a join, a group whose join lookup (the join index on
\* the outer row's join_key_values in key form, same max_block) finds an
\* entry gives the outer row followed by the join row's fields_from_join in
\* raw form; a group whose join lookup finds none gives no row.
C6_Join ==
    (op = "query" /\ res.err = "none" /\ call.name = index_names.cr_two) =>
        /\ res.rows = RowsOf(res.groups)
        /\ res.result = push_varuint32(Len(res.rows)) \o rows_to_bin(res.rows)
        /\ \A i \in 1..Len(res.groups) :
              LET g == res.groups[i]
                  outer == db[db[g.entry]]
                  join_key == <<key_tag.table_index>> \o Reverse(table_names.account)
                                  \o Reverse(index_names.acc_name) \o OwnerKey(outer)
                  S == Eligible(db, join_key, res.max_block_num)
              IN  g.entry # <<>> =>
                      IF S = {} THEN g.rows = <<>>
                      ELSE /\ IsNewest(S, g.join)
                           /\ g.rows = <<outer \o AccountData(db[db[g.join]])>>

\* Two outer groups, one whose owner has an account and one whose owner has
\* none: the first is returned with the account's data, the second dropped.
C6_Witness ==
    /\ op = "query"
    /\ call.name = index_names.cr_two
    /\ res.err = "none"
    /\ Len(res.groups) = 2
    /\ res.groups[1].entry # <<>> /\ Len(res.groups[1].rows) = 1
    /\ Len(res.groups[1].rows[1]) = 6
    /\ res.groups[2].entry # <<>> /\ res.groups[2].rows = <<>>
    /\ Len(res.rows) = 1

\* The bounds of a cr.two call (range types uint8, uint16) if its arguments
\* are read in the order of their positions p in the stream.
BoundsRead(p) ==
    LET index == <<key_tag.table_index>> \o Reverse(table_names.contract_row)
                     \o Reverse(index_names.cr_two)
    IN  [first |-> index \o <<call.args[p[1]]>> \o <<call.args[p[2] + 1], call.args[p[2]]>>,
         last |-> index \o <<call.args[p[3]]>> \o <<call.args[p[4] + 1], call.args[p[4]]>>]

\* C8 (as stated): the range arguments are read interleaved per range type,
\* lower1, upper1, lower2, upper2, then the cap.
C8_ArgsInterleaved ==
    (op = "query" /\ res.err = "none" /\ call.name = index_names.cr_two) =>
        /\ res.first = BoundsRead(<<1, 3, 2, 5>>).first
        /\ res.last = BoundsRead(<<1, 3, 2, 5>>).last

\* C8 (amended): all lower-bound values are read first, in declaration
\* order, then all upper-bound values, lower1, lower2, upper1, upper2, then
\* the cap.
C8_ArgsLowerThenUpper ==
    (op = "query" /\ res.err = "none" /\ call.name = index_names.cr_two) =>
        /\ res.first = BoundsRead(<<1, 2, 4, 5>>).first
        /\ res.last = BoundsRead(<<1, 2, 4, 5>>).last
        /\ res.max_results = Min(Val(call.cap), 2)

\* A call whose arguments give different bounds in the two orders, and
\* whose range holds a row.
C8_Witness ==
    /\ op = "query"
    /\ call.name = index_names.cr_two
    /\ call.args = <<1, 0, 0, 2, 255, 255>>
    /\ res.err = "none"
    /\ res.first # BoundsRead(<<1, 3, 2, 5>>).first
    /\ Len(res.groups) = 2

\* C14: in a query with limit_block_num false, max_block is 0 and is not
\* used: no as-of value is read from query_bin (the range arguments follow
\* the name), and no version is hidden by its block number, so each matching
\* group of a state query gives its newest version whatever block wrote it.
C14_HorizonDisabled ==
    (op = "query" /\ res.err = "none" /\ call.name = index_names.cr_nolimit) =>
        LET index == <<key_tag.table_index>> \o Reverse(table_names.contract_row)
                         \o Reverse(index_names.cr_nolimit)
        IN  /\ res.max_block_num = ToLE(0, 4)
            /\ res.first = index \o <<call.args[1]>>
            /\ res.last = index \o <<call.args[2]>>
            /\ res.max_results = Min(Val(call.cap), 2)
            /\ \A i \in 1..Len(res.groups) :
                  LET g == res.groups[i]
                      S == GroupEntries(db, g.index_key)
                  IN  /\ S # {}
                      /\ IsNewest(S, g.entry)
                      /\ g.rows = <<db[db[g.entry]]>>

====
